---- MODULE Spec2Model ----
(***************************************************************************)
(* DocuThinker: the client-side upload coordinator (the two upload modals,  *)
(* UploadModal and UnifiedUploadModal), the server-side cache gateway       *)
(* (redisClient.js), the POST /upload endpoint and the Firestore document   *)
(* model, modelled as state machines.                                       *)
(***************************************************************************)
EXTENDS Integers, Sequences, FiniteSets, TLC

VARIABLES
    \* ---- upload modal (one modal instance, of either variant) ----
    variant,          \* which of the two components this instance is
    file,             \* useState(null)
    title,            \* useState("")
    loading,          \* useState(false)
    progressMessage,  \* useState("")
    errorMessage,     \* useState("")
    openSnackbar,     \* useState(false)   (snackbarOpen in UnifiedUploadModal)
    open,             \* useState(true)    (UploadModal only)
    view,             \* the committed render: what the handlers' closures and the button see
    attempts,         \* the handleUpload invocations that passed validation: those still
                      \* suspended, and the ones that ended since the last submit
    localStorage,     \* the browser's localStorage: keys "originalText" and "userId"
    summary,          \* the caller's sink behind setSummary
    originalText,     \* the caller's sink behind setOriginalText
    documentFile,     \* the caller's sink behind setDocumentFile
    lastOp,           \* "handleUpload" when the last step was a submit click, else "other"
    \* ---- cache gateway (redisClient.js) ----
    redisClient,      \* the module-level client: "undefined" until createClient
    initPc,           \* where initializeRedis / addExampleKeys stands
    store,            \* the Redis keyspace: key -> entry
    pending,          \* cacheRecentlyViewedDocument calls between lPush and expire
    appended,         \* per user: the ids pushed, oldest first, since the list key last appeared
    lastCall,         \* the helper call that completed last, as its caller saw it
    \* ---- upload endpoint (the Express app, POST /upload) ----
    uploadDocument,   \* what controllers exports under that name: a function or undefined
    runtime,          \* the Express major version and NODE_ENV the process runs with
    req,              \* the request being handled
    res,              \* the responses sent for it, in order
    routePc,          \* where the handling of the request stands
    raised,           \* the exception raised while handling it, if any
    \* ---- document model (Firestore users/<uid>) ----
    userDoc,          \* the stored user document: whether it exists, and its documents array
    calls,            \* the Document.* calls made so far, each with its snapshot and position
    serial,           \* the array had every call so far taken effect at once, at its write
    staleWrite        \* whether some call wrote an array built from an outdated snapshot

uploadVars == <<variant, file, title, loading, progressMessage, errorMessage,
                openSnackbar, open, view, attempts, localStorage, summary,
                originalText, documentFile, lastOp>>

cacheVars == <<redisClient, initPc, store, pending, appended, lastCall>>

serverVars == <<uploadDocument, runtime, req, res, routePc, raised>>

firestoreVars == <<userDoc, calls, serial, staleWrite>>

vars == <<uploadVars, cacheVars, serverVars, firestoreVars>>

notUploadVars == <<cacheVars, serverVars, firestoreVars>>
notCacheVars == <<uploadVars, serverVars, firestoreVars>>
notServerVars == <<uploadVars, cacheVars, firestoreVars>>
notFirestoreVars == <<uploadVars, cacheVars, serverVars>>

\* ---------------------------------------------------------------- bounds
MaxInFlight == 2
MaxRecentTotal == 3     \* list elements the keyspace may hold in all
MaxPending == 1         \* request-side cacheRecentlyViewedDocument calls suspended at once
MaxCalls == 3           \* Document.* calls made on the one user

\* ------------------------------------------------------------- constants
UploadModal == "UploadModal"
UnifiedUploadModal == "UnifiedUploadModal"
Variants == {UploadModal, UnifiedUploadModal}

PdfType == "application/pdf"
DocxType == "application/vnd.openxmlformats-officedocument.wordprocessingml.document"
Undefined == "<undefined>"
Null == "<null>"

NoFile == [name |-> Undefined, type |-> Undefined]

\* what react-dropzone's accept filter lets through
DropFiles == {[name |-> "a.pdf", type |-> PdfType], [name |-> "b.docx", type |-> DocxType]}

\* what GoogleDriveFileSelectorModal may hand to UploadModal: any file object
PickerFiles == DropFiles \cup {[name |-> "c.txt", type |-> "text/plain"]}

\* the Drive list entries of UnifiedUploadModal are {id, name, mimeType}: no type
DriveListFiles == {[name |-> "d.pdf", type |-> Undefined]}

Texts == {"", "hello"}
Summaries == {"S1"}
\* what the user types into the title field: here, clearing it
TypedTitles == {""}

ExtractingMsg(v) == "Extracting text..."
SummarizingMsg(v) == IF v = UploadModal THEN "Summarizing your document..." ELSE "Summarizing..."
ValidationMsg(v) ==
    IF v = UploadModal THEN "Please select a file and provide a title." ELSE "Select file & title"

\* --------------------------------------------------------------- helpers

\* JS truthiness of the two operands of `!file || !title`
FilePresent(f) == f # NoFile
TitlePresent(t) == t # ""

\* handleUpload's guard: the submit goes on only if neither operand is falsy
PassesValidationTitleUnchecked(f, t) == FilePresent(f)
PassesValidation(f, t) == FilePresent(f) /\ TitlePresent(t)

\* the extraction backend the declared media type selects: pdfjs, mammoth or neither
ExtractorFor(f) ==
    IF f.type = PdfType THEN "pdf"
    ELSE IF f.type = DocxType THEN "docx"
    ELSE "none"

\* what each modal does with a type that selects no backend:
\* UploadModal throws, UnifiedUploadModal's extractText returns ""
UnsupportedOutcome(v) == IF v = UploadModal THEN "throw" ELSE "empty"

\* error.response?.data?.error || error.message
ErrMsg(e) == IF e.responseError # "" THEN e.responseError ELSE e.message

UnsupportedError == [responseError |-> "", message |-> "Unsupported file format"]
ParseErrors == {[responseError |-> "", message |-> "Invalid PDF structure"]}
QuotaError == [responseError |-> "", message |-> "QuotaExceededError"]

\* what the backends may yield: a text (a 0-page PDF yields "") or a parser error
ExtractionOutcomes ==
    {[ok |-> TRUE, text |-> t, error |-> UnsupportedError] : t \in Texts}
        \cup {[ok |-> FALSE, text |-> "", error |-> e] : e \in ParseErrors}

\* what axios.post may settle with: 2xx with data, a non-2xx answer, no answer at all
NoResponse == [status |-> "none", summary |-> "", originalText |-> "", error |-> ""]
OkResponses ==
    {[status |-> "ok", summary |-> s, originalText |-> t, error |-> ""] :
        s \in Summaries, t \in Texts}
HttpErrorResponses ==
    {[status |-> "http_error", summary |-> "", originalText |-> "", error |-> e] :
        e \in {"", "No file or text provided"}}
NetworkErrorResponses ==
    {[status |-> "network_error", summary |-> "", originalText |-> "", error |-> ""]}
Responses == OkResponses \cup HttpErrorResponses \cup NetworkErrorResponses

\* the error object axios rejects with
AxiosError(resp) ==
    IF resp.status = "http_error"
    THEN [responseError |-> resp.error, message |-> "Request failed with status code 400"]
    ELSE [responseError |-> "", message |-> "Network Error"]

NoPayload == [title |-> "", text |-> "", userId |-> Undefined]

\* the request body: UploadModal adds userId only when truthy,
\* UnifiedUploadModal always sends what getItem returned
Payload(v, t, text, uid) ==
    [title |-> t, text |-> text,
     userId |-> IF v = UploadModal /\ uid = Null THEN Undefined ELSE uid]

InFlight == {"extracting", "posting"}
IsInFlight(a) == a.pc \in InFlight

NewAttempt(f, t) ==
    [file |-> f, title |-> t, pc |-> "extracting", trace |-> <<"Extracting">>,
     backend |-> ExtractorFor(f), extracted |-> FALSE, text |-> "", posts |-> 0,
     payload |-> NoPayload, response |-> NoResponse, error |-> ""]

\* the catch block, as far as the attempt goes
Catch(a, e) ==
    [a EXCEPT !.pc = "failed", !.trace = Append(@, "Failed"), !.error = ErrMsg(e)]

\* setLoading(false) in the catch block
LoadingNotCleared == TRUE
LoadingAfterCatch == FALSE

\* setProgressMessage("Summarizing..."), build the payload, axios.post(...)
IssuePost(v, a, uid) ==
    [a EXCEPT !.pc = "posting", !.trace = Append(@, "Summarizing"),
              !.posts = @ + 1, !.payload = Payload(v, a.title, a.text, uid)]

\* the continuation of handleUpload once the extraction call has settled
AfterExtractionIgnoringFailure(v, a, outcome, uid) ==
    IssuePost(v, [a EXCEPT !.extracted = outcome.ok, !.text = outcome.text], uid)
AfterExtraction(v, a, outcome, uid) ==
    IF outcome.ok
    THEN IssuePost(v, [a EXCEPT !.extracted = TRUE, !.text = outcome.text], uid)
    ELSE Catch(a, outcome.error)

\* handleUpload up to its first suspension, for a submit that passed validation
StartAttempt(v, f, t, uid) ==
    LET a == NewAttempt(f, t) IN
    IF a.backend # "none" THEN a
    ELSE IF UnsupportedOutcome(v) = "throw" THEN Catch(a, UnsupportedError)
    ELSE AfterExtraction(v, a, [ok |-> TRUE, text |-> "", error |-> UnsupportedError], uid)

\* disabled={loading} on the submit button
SubmitNeverDisabled == FALSE
SubmitDisabled == view.loading

\* localStorage.setItem stores the string form of its argument
ToStorageString(x) == IF x = Undefined THEN "undefined" ELSE IF x = Null THEN "null" ELSE x

\* what the success path hands to setSummary, setOriginalText and setItem("originalText", .)
SuccessOutputsSwapped(resp) ==
    [summary |-> resp.summary, originalText |-> resp.originalText,
     stored |-> ToStorageString(resp.summary)]
SuccessOutputs(resp) ==
    [summary |-> resp.summary, originalText |-> resp.originalText,
     stored |-> ToStorageString(resp.originalText)]

\* the component function: a render commits the state into the tree
Rendered == [file |-> file, title |-> title, loading |-> loading]

\* ------------------------------------------------------------------ Init
InitUpload ==
    /\ variant \in Variants
    /\ file = NoFile
    /\ title = ""
    /\ loading = FALSE
    /\ progressMessage = ""
    /\ errorMessage = ""
    /\ openSnackbar = FALSE
    /\ open = TRUE
    /\ view = [file |-> NoFile, title |-> "", loading |-> FALSE]
    /\ attempts = <<>>
    /\ localStorage \in {[originalText |-> Null, userId |-> u] : u \in {Null, "u1"}}
    /\ summary = ""
    /\ originalText = ""
    /\ documentFile = NoFile
    /\ lastOp = "other"

\* --------------------------------------------------------------- actions

\* react-dropzone calls onDrop outside a React event; an all-rejected drop has no [0]
OnDrop(accepted) ==
    /\ lastOp' = "other"
    /\ IF accepted = <<>>
       THEN /\ file' = NoFile
            /\ documentFile' = IF variant = UploadModal THEN NoFile ELSE documentFile
            /\ title' = title
       ELSE /\ file' = accepted[1]
            /\ documentFile' = accepted[1]
            /\ title' = accepted[1].name
    /\ UNCHANGED <<variant, loading, progressMessage, errorMessage, openSnackbar, open,
                   view, attempts, localStorage, summary, originalText>>

\* UploadModal: handleFileFromGoogleDrive, called back by the picker component
HandleFileFromGoogleDrive(f) ==
    /\ variant = UploadModal
    /\ lastOp' = "other"
    /\ file' = f
    /\ title' = f.name
    /\ documentFile' = f
    /\ UNCHANGED <<variant, loading, progressMessage, errorMessage, openSnackbar, open,
                   view, attempts, localStorage, summary, originalText>>

\* UnifiedUploadModal: the onClick of a Drive list entry (a React click event)
DriveListClick(f) ==
    /\ variant = UnifiedUploadModal
    /\ lastOp' = "other"
    /\ file' = f
    /\ title' = f.name
    /\ documentFile' = f
    /\ view' = [view EXCEPT !.file = f, !.title = f.name]
    /\ UNCHANGED <<variant, loading, progressMessage, errorMessage, openSnackbar, open,
                   attempts, localStorage, summary, originalText>>

\* the title TextField's onChange; the field is rendered only when a file is
SetTitle(t) ==
    /\ FilePresent(view.file)
    /\ lastOp' = "other"
    /\ title' = t
    /\ view' = [view EXCEPT !.title = t]
    /\ UNCHANGED <<variant, file, loading, progressMessage, errorMessage, openSnackbar,
                   open, attempts, localStorage, summary, originalText, documentFile>>

\* the button's onClick: handleUpload, run up to its first suspension
HandleUpload ==
    /\ ~SubmitDisabled
    /\ lastOp' = "handleUpload"
    /\ IF ~PassesValidation(view.file, view.title)
       THEN /\ errorMessage' = ValidationMsg(variant)
            /\ openSnackbar' = TRUE
            /\ UNCHANGED <<loading, progressMessage, view, attempts>>
       ELSE /\ Len(SelectSeq(attempts, IsInFlight)) < MaxInFlight
            /\ LET a == StartAttempt(variant, view.file, view.title, localStorage.userId) IN
               /\ attempts' = Append(SelectSeq(attempts, IsInFlight), a)
               /\ loading' = IF a.pc = "failed" THEN LoadingAfterCatch ELSE TRUE
               /\ progressMessage' =
                      IF a.pc = "posting" THEN SummarizingMsg(variant)
                      ELSE ExtractingMsg(variant)
               /\ errorMessage' =
                      IF a.pc = "failed" THEN "Upload failed: " \o a.error ELSE errorMessage
               /\ openSnackbar' = IF a.pc = "failed" THEN TRUE ELSE openSnackbar
               /\ view' = [view EXCEPT !.loading = loading']
    /\ UNCHANGED <<variant, file, title, open, localStorage, summary, originalText,
                   documentFile>>

\* the extraction backend settles and handleUpload resumes
ExtractionDone(i, outcome) ==
    /\ i \in 1..Len(attempts)
    /\ attempts[i].pc = "extracting"
    /\ lastOp' = "other"
    /\ LET a == AfterExtraction(variant, attempts[i], outcome, localStorage.userId) IN
       /\ attempts' = [attempts EXCEPT ![i] = a]
       /\ IF a.pc = "failed"
          THEN /\ loading' = LoadingAfterCatch
               /\ errorMessage' = "Upload failed: " \o a.error
               /\ openSnackbar' = TRUE
               /\ UNCHANGED progressMessage
          ELSE /\ progressMessage' = SummarizingMsg(variant)
               /\ UNCHANGED <<loading, errorMessage, openSnackbar>>
    /\ UNCHANGED <<variant, file, title, open, view, localStorage, summary, originalText,
                   documentFile>>

\* axios.post settles and handleUpload runs to its end
ResponseArrives(i, resp, setItemThrows) ==
    /\ i \in 1..Len(attempts)
    /\ attempts[i].pc = "posting"
    /\ lastOp' = "other"
    /\ LET a == [attempts[i] EXCEPT !.response = resp] IN
       IF resp.status = "ok"
       THEN LET out == SuccessOutputs(resp) IN
            /\ summary' = out.summary
            /\ originalText' = out.originalText
            /\ IF setItemThrows
               THEN /\ attempts' = [attempts EXCEPT ![i] = Catch(a, QuotaError)]
                    /\ loading' = LoadingAfterCatch
                    /\ errorMessage' = "Upload failed: " \o ErrMsg(QuotaError)
                    /\ openSnackbar' = TRUE
                    /\ UNCHANGED <<localStorage, open>>
               ELSE /\ attempts' = [attempts EXCEPT ![i] =
                           [a EXCEPT !.pc = "succeeded", !.trace = Append(@, "Succeeded")]]
                    /\ loading' = FALSE
                    /\ localStorage' = [localStorage EXCEPT !.originalText = out.stored]
                    /\ open' = IF variant = UploadModal THEN FALSE ELSE open
                    /\ UNCHANGED <<errorMessage, openSnackbar>>
       ELSE /\ ~setItemThrows
            /\ attempts' = [attempts EXCEPT ![i] = Catch(a, AxiosError(resp))]
            /\ loading' = LoadingAfterCatch
            /\ errorMessage' = "Upload failed: " \o ErrMsg(AxiosError(resp))
            /\ openSnackbar' = TRUE
            /\ UNCHANGED <<localStorage, open, summary, originalText>>
    /\ UNCHANGED <<variant, file, title, progressMessage, view, documentFile>>

\* React re-renders after updates made outside an event handler
Render ==
    /\ view # Rendered
    /\ lastOp' = "other"
    /\ view' = Rendered
    /\ UNCHANGED <<variant, file, title, loading, progressMessage, errorMessage,
                   openSnackbar, open, attempts, localStorage, summary, originalText,
                   documentFile>>

\* the Snackbar's onClose (dismissal or the 6 s auto-hide)
CloseSnackbar ==
    /\ openSnackbar
    /\ lastOp' = "other"
    /\ openSnackbar' = FALSE
    /\ UNCHANGED <<variant, file, title, loading, progressMessage, errorMessage, open,
                   view, attempts, localStorage, summary, originalText, documentFile>>

NextUpload ==
    \/ \E acc \in {<<>>} \cup {<<f>> : f \in DropFiles} : OnDrop(acc) /\ UNCHANGED notUploadVars
    \/ \E f \in PickerFiles : HandleFileFromGoogleDrive(f) /\ UNCHANGED notUploadVars
    \/ \E f \in DriveListFiles : DriveListClick(f) /\ UNCHANGED notUploadVars
    \/ \E t \in TypedTitles : SetTitle(t) /\ UNCHANGED notUploadVars
    \/ HandleUpload /\ UNCHANGED notUploadVars
    \/ \E i \in DOMAIN attempts, o \in ExtractionOutcomes : ExtractionDone(i, o) /\ UNCHANGED notUploadVars
    \/ \E i \in DOMAIN attempts, r \in Responses, q \in BOOLEAN : ResponseArrives(i, r, q) /\ UNCHANGED notUploadVars
    \/ Render /\ UNCHANGED notUploadVars
    \/ CloseSnackbar /\ UNCHANGED notUploadVars

\* the modal used at a human's pace: the submit button is clicked only once React
\* has rendered the last selection, so the closure sees the current file and title
NextUploadRendered ==
    \/ \E acc \in {<<>>} \cup {<<f>> : f \in DropFiles} : OnDrop(acc) /\ UNCHANGED notUploadVars
    \/ \E f \in PickerFiles : HandleFileFromGoogleDrive(f) /\ UNCHANGED notUploadVars
    \/ \E f \in DriveListFiles : DriveListClick(f) /\ UNCHANGED notUploadVars
    \/ \E t \in TypedTitles : SetTitle(t) /\ UNCHANGED notUploadVars
    \/ view = Rendered /\ HandleUpload /\ UNCHANGED notUploadVars
    \/ \E i \in DOMAIN attempts, o \in ExtractionOutcomes : ExtractionDone(i, o) /\ UNCHANGED notUploadVars
    \/ \E i \in DOMAIN attempts, r \in Responses, q \in BOOLEAN : ResponseArrives(i, r, q) /\ UNCHANGED notUploadVars
    \/ Render /\ UNCHANGED notUploadVars
    \/ CloseSnackbar /\ UNCHANGED notUploadVars

\* ------------------------------------------------- upload modal: claims

InFlightAttempts == SelectSeq(attempts, IsInFlight)

\* C1: a submit whose closure sees no file or an empty title starts no attempt
\* (so no extraction and no POST), leaves loading false and every output alone,
\* and only raises the validation notification.
C1_ValidationOnly ==
    [][(lastOp' = "handleUpload" /\ (view.file = NoFile \/ view.title = ""))
        => /\ attempts' = attempts
           /\ loading = FALSE /\ loading' = FALSE
           /\ errorMessage' = ValidationMsg(variant)
           /\ openSnackbar' = TRUE
           /\ UNCHANGED <<file, title, progressMessage, open, view, localStorage,
                          summary, originalText, documentFile>>]_vars

C1_Witness ==
    /\ lastOp = "handleUpload"
    /\ view.file # NoFile /\ view.title = ""
    /\ errorMessage = ValidationMsg(variant)
    /\ openSnackbar
    /\ attempts = <<>>

\* C2 (as claimed): every attempt on a file whose declared type is neither PDF nor
\* DOCX has run no extraction backend, issued no POST, and has ended Failed with
\* the unsupported-format error.
C2_UnsupportedRejected ==
    \A i \in DOMAIN attempts :
        attempts[i].file.type \notin {PdfType, DocxType}
            => /\ attempts[i].backend = "none"
               /\ attempts[i].posts = 0
               /\ attempts[i].pc = "failed"
               /\ attempts[i].error = "Unsupported file format"

\* C3: at most one attempt is suspended at any time, and while one is the submit
\* button is disabled, whatever re-render is still pending.
C3_AtMostOneInFlight ==
    /\ Len(InFlightAttempts) <= 1
    /\ Len(InFlightAttempts) = 1 => (view.loading /\ loading)

C3_Witness ==
    /\ Len(InFlightAttempts) = 1
    /\ InFlightAttempts[1].pc = "posting"
    /\ view # Rendered

AllowedTraces ==
    { <<"Extracting">>,
      <<"Extracting", "Failed">>,
      <<"Extracting", "Summarizing">>,
      <<"Extracting", "Summarizing", "Succeeded">>,
      <<"Extracting", "Summarizing", "Failed">> }

InTrace(a, st) == \E k \in DOMAIN a.trace : a.trace[k] = st

\* C4: every attempt has moved along Extracting -> Summarizing -> {Succeeded, Failed}
\* or Extracting -> Failed; it entered Summarizing only with the extraction call
\* settled with a text; it issued one POST if it entered Summarizing and none
\* otherwise; it is Succeeded only with a 2xx response in hand; and while it is
\* suspended the modal shows the matching progress message.
C4_ProgressOrder ==
    \A i \in DOMAIN attempts :
        LET a == attempts[i] IN
        /\ a.trace \in AllowedTraces
        /\ InTrace(a, "Summarizing") => a.extracted
        /\ a.posts = (IF InTrace(a, "Summarizing") THEN 1 ELSE 0)
        /\ a.pc = "succeeded" <=> InTrace(a, "Succeeded")
        /\ a.pc = "succeeded" => a.response.status = "ok"
        /\ a.pc = "failed" <=> InTrace(a, "Failed")
        /\ a.pc = "extracting" => (a.trace = <<"Extracting">> /\ loading
                                    /\ progressMessage = ExtractingMsg(variant))
        /\ a.pc = "posting" => (a.trace = <<"Extracting", "Summarizing">> /\ loading
                                 /\ progressMessage = SummarizingMsg(variant))

C4_Witness ==
    \E i \in DOMAIN attempts :
        /\ attempts[i].trace = <<"Extracting", "Summarizing", "Succeeded">>
        /\ attempts[i].backend = "pdf"
        /\ attempts[i].posts = 1

\* C5: an attempt whose extraction failed or whose POST was rejected or answered
\* non-2xx has ended Failed with a message; and with no attempt suspended the
\* in-flight flag is clear, so once that state is rendered the submit button is
\* enabled: no failure leaves the modal loading.
C5_FailureClearsLoading ==
    /\ \A i \in DOMAIN attempts :
          /\ attempts[i].response.status \in {"http_error", "network_error"}
                => attempts[i].pc = "failed"
          /\ attempts[i].pc = "failed" => attempts[i].error # ""
    /\ InFlightAttempts = <<>> => (loading = FALSE /\ (view = Rendered => ~view.loading))

\* a fresh attempt runs while the notification of the failed one still shows
C5_Witness ==
    /\ errorMessage = "Upload failed: Network Error"
    /\ Len(InFlightAttempts) = 1
    /\ Len(attempts) = 1

\* C6: the step in which an attempt becomes Succeeded leaves the summary sink, the
\* original-text sink and localStorage["originalText"] holding that attempt's
\* response; and no other step changes localStorage["originalText"].
C6_SuccessOutputs ==
    [][/\ \A i \in DOMAIN attempts' :
            (attempts'[i].pc = "succeeded"
                /\ i \in DOMAIN attempts /\ attempts[i].pc # "succeeded")
            => /\ summary' = attempts'[i].response.summary
               /\ originalText' = attempts'[i].response.originalText
               /\ localStorage'.originalText = attempts'[i].response.originalText
       /\ localStorage'.originalText # localStorage.originalText
            => \E i \in DOMAIN attempts :
                  attempts[i].pc = "posting" /\ attempts'[i].pc = "succeeded"]_vars

C6_Witness ==
    \E i \in DOMAIN attempts :
        /\ attempts[i].pc = "succeeded"
        /\ attempts[i].response.originalText = "hello"
        /\ localStorage.originalText = "hello"
        /\ originalText = "hello"
        /\ summary = attempts[i].response.summary

\* C18 (as claimed): the step in which an attempt ends Failed leaves the summary
\* sink, the original-text sink and localStorage["originalText"] as they were;
\* and so does every step that leaves the attempt suspended, so that they hold
\* what they held before the attempt.
C18_FailedChangesNothing ==
    [][\A i \in DOMAIN attempts :
            (IsInFlight(attempts[i]) /\ i \in DOMAIN attempts'
                /\ attempts'[i].pc \in InFlight \cup {"failed"})
            => /\ summary' = summary
               /\ originalText' = originalText
               /\ localStorage'.originalText = localStorage.originalText]_vars

\* C19 (as claimed): in the step in which an attempt becomes Succeeded, the file
\* its summary was computed from is the file setDocumentFile was last given.
C19_SummaryOfDocumentFile ==
    [][\A i \in DOMAIN attempts :
            (attempts[i].pc = "posting" /\ i \in DOMAIN attempts'
                /\ attempts'[i].pc = "succeeded")
            => attempts'[i].file = documentFile']_vars

\* ======================================================== cache gateway

DefaultTtl == 3600
QueryTtl == 600
\* the clock advances in steps of half the default time-to-live
TickSeconds == DefaultTtl \div 2

Users == {"user123", "u2"}
Docs == {"doc123", "doc456"}
ExampleUser == "user123"
ExampleDoc == "doc123"
ExampleQuery == "user123:search:AI"

SessionKey(u) == "user:session:" \o u
MetadataKey(d) == "document:metadata:" \o d
QueryKey(q) == "query:results:" \o q
RecentKey(u) == "user:recently_viewed:" \o u
TestKey == "DocuThinker-Redis"

StringKeys == {SessionKey(ExampleUser), MetadataKey(ExampleDoc), QueryKey(ExampleQuery), TestKey}
RecentKeys == {RecentKey(u) : u \in Users}
AllKeys == StringKeys \cup RecentKeys
\* the keys request handlers look up and invalidate: a JSON string, a non-JSON string, a list
ProbedKeys == {SessionKey(ExampleUser), TestKey, RecentKey(ExampleUser)}

\* the values the callers cache, and undefined (which JSON.stringify maps to undefined)
SessionData == {"exampleSession", Undefined}
MetadataData == {"exampleDocMetadata", Undefined}
QueryData == {"exampleQueryResults", Undefined}

\* a Redis string: the JSON text of a value, or text that is no JSON ("connected")
NoStr == [enc |-> "raw", body |-> ""]
Connected == [enc |-> "raw", body |-> "connected"]
JsonStringify(v) == [enc |-> "json", body |-> v]
JsonParse(str) ==
    IF str.enc = "json" THEN [ok |-> TRUE, value |-> str.body] ELSE [ok |-> FALSE, value |-> Null]

\* an entry's ttl is <<>> (no expiry) or <<seconds left>>
Absent == [kind |-> "none", str |-> NoStr, list |-> <<>>, ttl |-> <<>>]

\* SET key value [EX ttl]: replaces whatever the key held, and its expiry
StoreSet(st, k, str, ttl) ==
    [st EXCEPT ![k] = [kind |-> "string", str |-> str, list |-> <<>>, ttl |-> ttl]]

\* LPUSH key elem: creates the list, or prepends; the key's expiry is left as it is
StoreRPush(st, k, e) ==
    [st EXCEPT ![k] = [kind |-> "list", str |-> NoStr, list |-> Append(@.list, e), ttl |-> @.ttl]]
StoreLPush(st, k, e) ==
    [st EXCEPT ![k] = [kind |-> "list", str |-> NoStr, list |-> <<e>> \o @.list, ttl |-> @.ttl]]

\* EXPIRE key ttl: sets the expiry of an existing key, does nothing on an absent one
StoreExpire(st, k, ttl) ==
    IF st[k].kind = "none" THEN st ELSE [st EXCEPT ![k].ttl = <<ttl>>]

\* DEL key
StoreDelStringsOnly(st, k) == IF st[k].kind = "list" THEN st ELSE [st EXCEPT ![k] = Absent]
StoreDel(st, k) == [st EXCEPT ![k] = Absent]

\* GET key: nil on an absent key, WRONGTYPE on a list
StoreGet(st, k) ==
    IF st[k].kind = "list" THEN [ok |-> FALSE, found |-> FALSE, str |-> NoStr]
    ELSE [ok |-> TRUE, found |-> st[k].kind = "string", str |-> st[k].str]

\* the passage of TickSeconds: expiries count down, expired keys vanish
StoreTick(st) ==
    [k \in AllKeys |->
        IF st[k].ttl = <<>> THEN st[k]
        ELSE IF st[k].ttl[1] <= TickSeconds THEN Absent
        ELSE [st[k] EXCEPT !.ttl = <<@[1] - TickSeconds>>]]

\* a store command rejects when there is no client (TypeError on undefined),
\* when the connection is down, or when the argument is undefined
CommandThrows(connectionDown) == redisClient = "undefined" \/ connectionDown

\* the try/catch of every write helper: the error is logged and the helper returns
HelperRethrows(bodyThrew) == IF bodyThrew THEN "threw" ELSE "returned"
HelperOutcome(bodyThrew) == "returned"

\* fetchFromCache: `data ? JSON.parse(data) : null` inside try, `return null` in catch
FetchUncaught(got, readThrew) ==
    IF readThrew \/ ~got.ok THEN [outcome |-> "threw", value |-> Null]
    ELSE IF ~got.found \/ got.str.body = "" THEN [outcome |-> "returned", value |-> Null]
    ELSE IF ~JsonParse(got.str).ok THEN [outcome |-> "threw", value |-> Null]
    ELSE [outcome |-> "returned", value |-> JsonParse(got.str).value]
FetchResult(got, readThrew) ==
    IF readThrew \/ ~got.ok THEN [outcome |-> "returned", value |-> Null]
    ELSE IF ~got.found \/ got.str.body = "" THEN [outcome |-> "returned", value |-> Null]
    ELSE IF ~JsonParse(got.str).ok THEN [outcome |-> "returned", value |-> Null]
    ELSE [outcome |-> "returned", value |-> JsonParse(got.str).value]

NoCall == [op |-> "none", key |-> "", outcome |-> "returned", storeFailed |-> FALSE, value |-> Null]
Completed(op, k, bodyThrew) ==
    [op |-> op, key |-> "", outcome |-> HelperOutcome(bodyThrew), storeFailed |-> bodyThrew,
     value |-> Null]

\* the history of pushes follows the keyspace: it restarts when the list key is gone
AppendedAfter(st, pushedUser, pushedDoc) ==
    [u \in Users |->
        IF st[RecentKey(u)].kind = "none" THEN <<>>
        ELSE IF u = pushedUser THEN Append(appended[u], pushedDoc)
        ELSE appended[u]]
NoPush == "<none>"

TotalListed(st) == Len(st[RecentKey("user123")].list) + Len(st[RecentKey("u2")].list)

InitCache ==
    /\ redisClient = "undefined"
    /\ initPc = "start"
    /\ store = [k \in AllKeys |-> Absent]
    /\ pending = {}
    /\ appended = [u \in Users |-> <<>>]
    /\ lastCall = NoCall

\* ---- the three SET helpers: one await, so one step
SetHelper(op, k, data, ttl, connectionDown) ==
    LET bodyThrew == CommandThrows(connectionDown) \/ data = Undefined IN
    /\ store' = IF bodyThrew THEN store ELSE StoreSet(store, k, JsonStringify(data), <<ttl>>)
    /\ lastCall' = Completed(op, k, bodyThrew)
    /\ appended' = AppendedAfter(store', NoPush, NoPush)

\* ---- cacheRecentlyViewedDocument: lPush, then expire, each an await
PushStep(u, d, connectionDown) ==
    LET bodyThrew == CommandThrows(connectionDown) IN
    /\ store' = IF bodyThrew THEN store ELSE StoreLPush(store, RecentKey(u), d)
    /\ appended' = IF bodyThrew THEN appended ELSE AppendedAfter(store', u, d)

ExpireStep(u, ttl, connectionDown) ==
    LET bodyThrew == CommandThrows(connectionDown) IN
    /\ store' = IF bodyThrew THEN store ELSE StoreExpire(store, RecentKey(u), ttl)
    /\ lastCall' = Completed("cacheRecentlyViewedDocument", RecentKey(u), bodyThrew)
    /\ appended' = appended

\* ---- initializeRedis and addExampleKeys, one step per await
\* REDIS_URL unset: the throw is caught and no client is ever created
InitializeRedis(urlSet) ==
    /\ initPc = "start"
    /\ IF urlSet
       THEN redisClient' = "client" /\ initPc' = "connect"
       ELSE redisClient' = redisClient /\ initPc' = "failed"
    /\ UNCHANGED <<store, pending, appended, lastCall>>

Connect(connectionDown) ==
    /\ initPc = "connect"
    /\ initPc' = IF connectionDown THEN "failed" ELSE "testKey"
    /\ UNCHANGED <<redisClient, store, pending, appended, lastCall>>

SetTestKey(connectionDown) ==
    /\ initPc = "testKey"
    /\ IF connectionDown
       THEN initPc' = "failed" /\ store' = store
       ELSE initPc' = "exampleSession" /\ store' = StoreSet(store, TestKey, Connected, <<>>)
    /\ appended' = AppendedAfter(store', NoPush, NoPush)
    /\ UNCHANGED <<redisClient, pending, lastCall>>

AddExampleKeys(connectionDown) ==
    /\ \/ /\ initPc = "exampleSession"
          /\ SetHelper("cacheUserSession", SessionKey(ExampleUser), "exampleSession",
                       DefaultTtl, connectionDown)
          /\ initPc' = "exampleMetadata"
       \/ /\ initPc = "exampleMetadata"
          /\ SetHelper("cacheDocumentMetadata", MetadataKey(ExampleDoc), "exampleDocMetadata",
                       DefaultTtl, connectionDown)
          /\ initPc' = "exampleQuery"
       \/ /\ initPc = "exampleQuery"
          /\ SetHelper("cacheQueryResults", QueryKey(ExampleQuery), "exampleQueryResults",
                       QueryTtl, connectionDown)
          /\ initPc' = "recent1"
    /\ UNCHANGED <<redisClient, pending>>

AddExampleRecent(connectionDown) ==
    /\ \/ /\ initPc \in {"recent1", "recent2"}
          /\ TotalListed(store) < MaxRecentTotal
          /\ PushStep(ExampleUser, IF initPc = "recent1" THEN "doc123" ELSE "doc456",
                      connectionDown)
          /\ initPc' = IF CommandThrows(connectionDown)
                       THEN (IF initPc = "recent1" THEN "recent2" ELSE "done")
                       ELSE (IF initPc = "recent1" THEN "expire1" ELSE "expire2")
          /\ lastCall' = IF CommandThrows(connectionDown)
                         THEN Completed("cacheRecentlyViewedDocument",
                                        RecentKey(ExampleUser), TRUE)
                         ELSE lastCall
       \/ /\ initPc \in {"expire1", "expire2"}
          /\ ExpireStep(ExampleUser, DefaultTtl, connectionDown)
          /\ initPc' = IF initPc = "expire1" THEN "recent2" ELSE "done"
    /\ UNCHANGED <<redisClient, pending>>

\* ---- the helpers as request handlers call them
CacheUserSession(data, connectionDown) ==
    /\ SetHelper("cacheUserSession", SessionKey(ExampleUser), data, DefaultTtl, connectionDown)
    /\ UNCHANGED <<redisClient, initPc, pending>>

CacheDocumentMetadata(data, connectionDown) ==
    /\ SetHelper("cacheDocumentMetadata", MetadataKey(ExampleDoc), data, DefaultTtl,
                 connectionDown)
    /\ UNCHANGED <<redisClient, initPc, pending>>

CacheQueryResults(data, connectionDown) ==
    /\ SetHelper("cacheQueryResults", QueryKey(ExampleQuery), data, QueryTtl, connectionDown)
    /\ UNCHANGED <<redisClient, initPc, pending>>

CacheRecentlyViewedDocument(u, d, connectionDown) ==
    /\ Cardinality(pending) < MaxPending
    /\ TotalListed(store) < MaxRecentTotal
    /\ PushStep(u, d, connectionDown)
    /\ IF CommandThrows(connectionDown)
       THEN /\ lastCall' = Completed("cacheRecentlyViewedDocument", RecentKey(u), TRUE)
            /\ pending' = pending
       ELSE /\ lastCall' = lastCall
            /\ pending' = pending \cup {[userId |-> u, docId |-> d]}
    /\ UNCHANGED <<redisClient, initPc>>

CacheRecentlyViewedExpire(p, connectionDown) ==
    /\ p \in pending
    /\ ExpireStep(p.userId, DefaultTtl, connectionDown)
    /\ pending' = pending \ {p}
    /\ UNCHANGED <<redisClient, initPc>>

InvalidateCache(k, connectionDown) ==
    LET bodyThrew == CommandThrows(connectionDown) IN
    /\ store' = IF bodyThrew THEN store ELSE StoreDel(store, k)
    /\ appended' = AppendedAfter(store', NoPush, NoPush)
    /\ lastCall' = Completed("invalidateCache", k, bodyThrew)
    /\ UNCHANGED <<redisClient, initPc, pending>>

FetchFromCache(k, connectionDown) ==
    LET readThrew == CommandThrows(connectionDown)
        r == FetchResult(StoreGet(store, k), readThrew) IN
    /\ lastCall' = [op |-> "fetchFromCache", key |-> k, outcome |-> r.outcome,
                    storeFailed |-> readThrew, value |-> r.value]
    /\ UNCHANGED <<redisClient, initPc, store, pending, appended>>

Tick ==
    /\ store' = StoreTick(store)
    /\ appended' = AppendedAfter(store', NoPush, NoPush)
    /\ UNCHANGED <<redisClient, initPc, pending, lastCall>>

NextCache ==
    \/ \E url \in BOOLEAN : InitializeRedis(url) /\ UNCHANGED notCacheVars
    \/ \E down \in BOOLEAN : Connect(down) /\ UNCHANGED notCacheVars
    \/ \E down \in BOOLEAN : SetTestKey(down) /\ UNCHANGED notCacheVars
    \/ \E down \in BOOLEAN : AddExampleKeys(down) /\ UNCHANGED notCacheVars
    \/ \E down \in BOOLEAN : AddExampleRecent(down) /\ UNCHANGED notCacheVars
    \/ \E data \in SessionData, down \in BOOLEAN : CacheUserSession(data, down) /\ UNCHANGED notCacheVars
    \/ \E data \in MetadataData, down \in BOOLEAN : CacheDocumentMetadata(data, down) /\ UNCHANGED notCacheVars
    \/ \E data \in QueryData, down \in BOOLEAN : CacheQueryResults(data, down) /\ UNCHANGED notCacheVars
    \/ \E down \in BOOLEAN : CacheRecentlyViewedDocument(ExampleUser, ExampleDoc, down) /\ UNCHANGED notCacheVars
    \/ \E p \in pending, down \in BOOLEAN : CacheRecentlyViewedExpire(p, down) /\ UNCHANGED notCacheVars
    \/ \E k \in ProbedKeys, down \in BOOLEAN : InvalidateCache(k, down) /\ UNCHANGED notCacheVars
    \/ \E k \in ProbedKeys, down \in BOOLEAN : FetchFromCache(k, down) /\ UNCHANGED notCacheVars
    \/ Tick /\ UNCHANGED notCacheVars

\* the gateway as the recently-viewed lists see it: start-up, the appends of every
\* user, invalidation of the list keys, and time
NextRecent ==
    \/ \E url \in BOOLEAN : InitializeRedis(url) /\ UNCHANGED notCacheVars
    \/ \E down \in BOOLEAN : Connect(down) /\ UNCHANGED notCacheVars
    \/ \E down \in BOOLEAN : SetTestKey(down) /\ UNCHANGED notCacheVars
    \/ \E down \in BOOLEAN : AddExampleKeys(down) /\ UNCHANGED notCacheVars
    \/ \E down \in BOOLEAN : AddExampleRecent(down) /\ UNCHANGED notCacheVars
    \/ \E u \in Users, d \in Docs, down \in BOOLEAN : CacheRecentlyViewedDocument(u, d, down) /\ UNCHANGED notCacheVars
    \/ \E p \in pending, down \in BOOLEAN : CacheRecentlyViewedExpire(p, down) /\ UNCHANGED notCacheVars
    \/ \E k \in RecentKeys, down \in BOOLEAN : InvalidateCache(k, down) /\ UNCHANGED notCacheVars
    \/ Tick /\ UNCHANGED notCacheVars

\* ------------------------------------------------ cache gateway: claims

WriteHelpers == {"cacheUserSession", "cacheDocumentMetadata", "cacheQueryResults",
                 "cacheRecentlyViewedDocument", "invalidateCache"}

\* C7: a write helper never hands an exception to its caller, whether the store
\* command failed, the value could not be written, or there was no client yet.
C7_WriteHelpersReturn ==
    lastCall.op \in WriteHelpers => lastCall.outcome = "returned"

\* cacheUserSession called with no client (initializeRedis failed): nothing written
C7_Witness ==
    /\ lastCall.op = "cacheUserSession"
    /\ lastCall.storeFailed
    /\ lastCall.outcome = "returned"
    /\ redisClient = "undefined"
    /\ initPc = "failed"
    /\ store[SessionKey(ExampleUser)].kind = "none"

\* C8: a fetchFromCache call returns (never throws), and returns null when the key
\* it read held no string (never written, expired, invalidated, or a list), held
\* text that is no JSON, or the read itself failed.
C8_FetchReturnsNull ==
    [][(lastCall'.op = "fetchFromCache" /\ lastCall' # lastCall)
        => /\ lastCall'.outcome = "returned"
           /\ (\/ store[lastCall'.key].kind # "string"
               \/ ~JsonParse(store[lastCall'.key].str).ok
               \/ lastCall'.storeFailed)
              => lastCall'.value = Null]_vars

\* the start-up key holds "connected", which JSON.parse rejects
C8_Witness ==
    /\ lastCall.op = "fetchFromCache"
    /\ lastCall.key = TestKey
    /\ ~lastCall.storeFailed
    /\ store[TestKey].kind = "string"
    /\ lastCall.outcome = "returned"
    /\ lastCall.value = Null

RECURSIVE Reverse(_)
Reverse(sq) == IF sq = <<>> THEN <<>> ELSE Append(Reverse(Tail(sq)), Head(sq))

RecentList(u) == store[RecentKey(u)].list

\* C9: each user's list is the ids pushed since the key appeared, most recent
\* first; and a step that pushes for one user leaves every other user's key alone.
C9_MostRecentFirst ==
    /\ [](\A u \in Users : RecentList(u) = Reverse(appended[u]))
    /\ [][\A v \in Users :
            Len(appended'[v]) = Len(appended[v]) + 1
                => \A u \in Users \ {v} : store'[RecentKey(u)] = store[RecentKey(u)]]_vars

\* addExampleKeys has pushed doc123 then doc456, while the other user holds a list
C9_Witness ==
    /\ initPc = "done"
    /\ RecentList(ExampleUser) = <<"doc456", "doc123">>
    /\ RecentList("u2") # <<>>

\* C10 (as claimed): the list stays under a fixed bound; here, under the number
\* of appends the model lets happen.
C10_ListBounded ==
    \A u \in Users : Len(RecentList(u)) < MaxRecentTotal

\* a step in which a cacheRecentlyViewedDocument call for ExampleUser returns: after
\* its expire (request side or start-up), or from the catch block after a failed lPush
RecentCallReturns ==
    /\ lastCall'.op = "cacheRecentlyViewedDocument"
    /\ \/ \E p \in pending : p.userId = ExampleUser /\ pending' = pending \ {p}
       \/ initPc \in {"expire1", "expire2"} /\ initPc' # initPc
       \/ initPc = "recent1" /\ initPc' = "recent2"
       \/ initPc = "recent2" /\ initPc' = "done"
       \/ lastCall'.storeFailed /\ lastCall' # lastCall /\ UNCHANGED <<pending, initPc>>

\* C11 (as claimed): when a cacheRecentlyViewedDocument call returns, the user's
\* list, if there is one, has the full time-to-live ahead of it: every element,
\* old and new, expires ttl seconds after the call.
C11_ExpiryReset ==
    [][RecentCallReturns
        => (store'[RecentKey(ExampleUser)].kind = "list"
              => store'[RecentKey(ExampleUser)].ttl = <<DefaultTtl>>)]_vars

\* what C13 asks of a step that completes invalidateCache(k)
InvalidateRemoves(k) ==
    /\ lastCall'.outcome = "returned"
    /\ store'[k] = Absent
    /\ \A j \in AllKeys \ {k} : store'[j] = store[j]
    /\ store[k] = Absent => store' = store
    /\ StoreDel(store', k) = store'
    /\ FetchResult(StoreGet(store', k), FALSE).value = Null

\* a step of the gateway that is no write: time, a lookup, an invalidation, an expire
NoWriteStep ==
    \/ Tick
    \/ \E j \in AllKeys, down \in BOOLEAN : InvalidateCache(j, down)
    \/ \E j \in AllKeys, down \in BOOLEAN : FetchFromCache(j, down)
    \/ \E p \in pending, down \in BOOLEAN : CacheRecentlyViewedExpire(p, down)

\* C13 (as claimed): an invalidateCache call completes without error; afterwards
\* its key is absent, so a lookup returns null until the key is written again; every
\* other key is as it was; on an absent key nothing changes, and a second
\* invalidation changes nothing more.
C13_InvalidateRemoves ==
    [][\A k \in AllKeys, down \in BOOLEAN :
            (lastCall'.op = "invalidateCache" /\ InvalidateCache(k, down))
                => InvalidateRemoves(k)]_vars

\* C13 (amended): the same, for the calls whose DEL the store executed; a call
\* whose DEL was rejected (no client yet, connection down) also completes without
\* error, and leaves the whole keyspace as it was. And an absent key stays absent
\* through every step that is no write: a lookup, an invalidation, an expire, time.
C13_InvalidateTotal ==
    /\ [][\A k \in AllKeys, down \in BOOLEAN :
            (lastCall'.op = "invalidateCache" /\ InvalidateCache(k, down))
                => IF CommandThrows(down)
                   THEN lastCall'.outcome = "returned" /\ store' = store
                   ELSE InvalidateRemoves(k)]_vars
    /\ [][(\E k \in AllKeys : store[k] = Absent /\ store'[k] # Absent) => ~NoWriteStep]_vars

\* the session key was written, then invalidated, while the user's list stays
C13_Witness ==
    /\ lastCall.op = "invalidateCache"
    /\ ~lastCall.storeFailed
    /\ store[SessionKey(ExampleUser)] = Absent
    /\ store[MetadataKey(ExampleDoc)].kind = "string"
    /\ store[RecentKey(ExampleUser)].kind = "list"
    /\ store[TestKey].kind = "string"
    /\ initPc = "done"

\* the keys the write helpers create (the start-up probe key is set by initializeRedis)
GatewayKeys == AllKeys \ {TestKey}

\* C12 (as claimed): in every state, between the two store steps of
\* cacheRecentlyViewedDocument and after a failed step included, every key a
\* write helper created is absent or carries an expiry.
C12_EveryKeyExpires ==
    \A k \in GatewayKeys : store[k].kind = "none" \/ store[k].ttl # <<>>

\* ======================================================= upload endpoint

\* String(text).slice(0, 200) and text.length > 200
SnippetLen == 200
\* the literal appended to a truncated summary: three UTF-16 code units in the source
Marker == <<"a-circumflex", "euro-sign", "broken-bar">>

\* a string field of the JSON body, as its UTF-16 code units; or no such field
UndefinedText == [defined |-> FALSE, chars |-> <<>>]
Str(n) == [defined |-> TRUE, chars |-> [i \in 1..n |-> IF i % 2 = 1 THEN "x" ELSE "y"]]
BodyTexts == {UndefinedText} \cup {Str(n) : n \in {0, 1, 11, SnippetLen - 1, SnippetLen,
                                                   SnippetLen + 1, SnippetLen + 50}}
BodyTitles == {Undefined, "", "T"}
BodyUserIds == {Undefined, "u1"}
\* req.body || {} : a request with no body has every field undefined
Bodies == [title : BodyTitles, text : BodyTexts, userId : BodyUserIds]

\* req.file as multer leaves it: undefined when the request has no file part
NoFilePart == [originalname |-> Undefined, mimetype |-> Undefined, size |-> 0, tooLarge |-> FALSE]
FileParts ==
    {[originalname |-> "a.pdf", mimetype |-> m, size |-> 10, tooLarge |-> big] :
        m \in {PdfType, ""}, big \in BOOLEAN}
NoRequest == [file |-> NoFilePart, body |-> [title |-> Undefined, text |-> UndefinedText,
                                             userId |-> Undefined]]
Requests == [file : {NoFilePart} \cup FileParts, body : Bodies]

\* JS truthiness of a string-or-undefined value
TruthyText(t) == t.defined /\ t.chars # <<>>
Truthy(x) == x # Undefined /\ x # ""

NoError == [where |-> "none", how |-> "none", message |-> "", status |-> Undefined]
ErrorMessages == {"", "Firestore unavailable"}
\* multer's LIMIT_FILE_SIZE error carries no status
MulterError == [where |-> "multer", how |-> "next", message |-> "File too large",
                status |-> Undefined]

NoSummary == [kind |-> "none", chars |-> <<>>, originalname |-> Undefined,
              mimetype |-> Undefined, size |-> 0]
\* `Fallback summary for "${originalname}". File type: ${mimetype}, size: ${size} bytes.`
FileSummary(f) == [kind |-> "file", chars |-> <<>>, originalname |-> f.originalname,
                   mimetype |-> f.mimetype, size |-> f.size]

Min(a, b) == IF a < b THEN a ELSE b

\* `${String(text).slice(0, 200)}${text.length > 200 ? marker : ""}`
FallbackSummaryMarksFull(text) ==
    [NoSummary EXCEPT !.kind = "snippet",
        !.chars = SubSeq(text.chars, 1, Min(SnippetLen, Len(text.chars)))
                    \o (IF Len(text.chars) >= SnippetLen THEN Marker ELSE <<>>)]
FallbackSummary(text) ==
    [NoSummary EXCEPT !.kind = "snippet",
        !.chars = SubSeq(text.chars, 1, Min(SnippetLen, Len(text.chars)))
                    \o (IF Len(text.chars) > SnippetLen THEN Marker ELSE <<>>)]

\* a response: the status and the JSON object sent with it
Reply(status) ==
    [status |-> status, summary |-> NoSummary, originalText |-> UndefinedText,
     title |-> Undefined, userId |-> Undefined, error |-> Undefined, details |-> Undefined]

MissingMimetypeMsg == "Uploaded file missing mimetype"
NothingProvidedMsg ==
    "No file or text provided in request. Send multipart/form-data (file) or JSON {title,text}."

\* the fallback branch of the /upload handler
FallbackReply(r) ==
    IF r.file # NoFilePart
    THEN IF ~Truthy(r.file.mimetype)
         THEN [Reply(400) EXCEPT !.error = MissingMimetypeMsg]
         ELSE [Reply(200) EXCEPT !.summary = FileSummary(r.file),
                                 !.originalText = Str(0),
                                 !.title = r.file.originalname]
    ELSE IF TruthyText(r.body.text) /\ Truthy(r.body.title)
         THEN [Reply(200) EXCEPT !.summary = FallbackSummary(r.body.text),
                                 !.originalText = r.body.text,
                                 !.title = r.body.title,
                                 !.userId = r.body.userId]
         ELSE [Reply(400) EXCEPT !.error = NothingProvidedMsg]

\* the handler's catch block: res.status(500).json({ error: err.message || "Upload error" })
CatchReply(err) ==
    [Reply(500) EXCEPT !.error = IF Truthy(err.message) THEN err.message ELSE "Upload error"]

\* the centralized error handler's response
ErrorHandlerReply(err, production) ==
    [Reply(IF err.status # Undefined THEN err.status ELSE 500) EXCEPT
        !.error = IF Truthy(err.message) THEN err.message ELSE "Internal Server Error",
        !.details = IF production THEN Undefined ELSE "stack"]

\* what the uploadDocument collaborator may do with (req, res) before it returns:
\* answer, throw, or return a promise that is still pending
CollaboratorReply == [Reply(200) EXCEPT !.summary = [NoSummary EXCEPT !.kind = "ai"]]
DelegateOutcomes ==
    {[how |-> "responds", message |-> ""], [how |-> "pending", message |-> ""]}
        \cup {[how |-> "throws", message |-> m] : m \in ErrorMessages}
\* and how the pending promise may settle
SettleOutcomes ==
    {[how |-> "responds", message |-> ""]}
        \cup {[how |-> "rejects", message |-> m] : m \in ErrorMessages}

InitServer ==
    /\ uploadDocument = "unloaded"
    /\ runtime = [express |-> "unloaded", production |-> FALSE]
    /\ req = NoRequest
    /\ res = <<>>
    /\ routePc = "down"
    /\ raised = NoError

\* the module body: require express, load the controllers (or not), read NODE_ENV
StartServer(hasUploadDocument, expressMajor, production) ==
    /\ routePc = "down"
    /\ uploadDocument' = IF hasUploadDocument THEN "function" ELSE "undefined"
    /\ runtime' = [express |-> expressMajor, production |-> production]
    /\ routePc' = "idle"
    /\ UNCHANGED <<req, res, raised>>

\* a POST /upload arrives and passes upload.single("file")
ReceiveUpload(r) ==
    /\ routePc = "idle"
    /\ req' = r
    /\ res' = <<>>
    /\ IF r.file # NoFilePart /\ r.file.tooLarge
       THEN routePc' = "errorHandler" /\ raised' = MulterError
       ELSE routePc' = "route" /\ raised' = NoError
    /\ UNCHANGED <<uploadDocument, runtime>>

\* the async route handler, run to its end or to the return of uploadDocument's promise
UploadRoute(outcome) ==
    /\ routePc = "route"
    /\ IF uploadDocument = "function"
       THEN CASE outcome.how = "responds" ->
                    /\ res' = Append(res, CollaboratorReply)
                    /\ routePc' = "finished"
                    /\ raised' = raised
              [] outcome.how = "throws" ->
                    /\ raised' = [where |-> "uploadDocument", how |-> "throw",
                                  message |-> outcome.message, status |-> Undefined]
                    /\ res' = Append(res, CatchReply(raised'))
                    /\ routePc' = "finished"
              [] OTHER ->
                    /\ routePc' = "delegated"
                    /\ UNCHANGED <<res, raised>>
       ELSE /\ outcome.how = "responds"
            /\ res' = Append(res, FallbackReply(req))
            /\ routePc' = "finished"
            /\ raised' = raised
    /\ UNCHANGED <<uploadDocument, runtime, req>>

\* the promise uploadDocument returned settles; the handler returned it without
\* awaiting, so its rejection passes the try block by and rejects the handler's
\* own promise: Express 5 forwards that to the error handlers, Express 4 does not
UploadDocumentSettles(outcome) ==
    /\ routePc = "delegated"
    /\ IF outcome.how = "responds"
       THEN /\ res' = Append(res, CollaboratorReply)
            /\ routePc' = "finished"
            /\ raised' = raised
       ELSE /\ raised' = [where |-> "uploadDocument", how |-> "reject",
                          message |-> outcome.message, status |-> Undefined]
            /\ routePc' = IF runtime.express = "5" THEN "errorHandler" ELSE "finished"
            /\ res' = res
    /\ UNCHANGED <<uploadDocument, runtime, req>>

\* the centralized error handler
ErrorHandler ==
    /\ routePc = "errorHandler"
    /\ res' = IF res # <<>> THEN res
              ELSE Append(res, ErrorHandlerReply(raised, runtime.production))
    /\ routePc' = "finished"
    /\ UNCHANGED <<uploadDocument, runtime, req, raised>>

\* nothing more happens for this request; the server takes the next one
NextRequest ==
    /\ routePc = "finished"
    /\ routePc' = "idle"
    /\ req' = NoRequest
    /\ res' = <<>>
    /\ raised' = NoError
    /\ UNCHANGED <<uploadDocument, runtime>>

NextServer ==
    \/ \E h \in BOOLEAN, e \in {"4", "5"}, p \in BOOLEAN : StartServer(h, e, p) /\ UNCHANGED notServerVars
    \/ \E r \in Requests : ReceiveUpload(r) /\ UNCHANGED notServerVars
    \/ \E o \in DelegateOutcomes : UploadRoute(o) /\ UNCHANGED notServerVars
    \/ \E o \in SettleOutcomes : UploadDocumentSettles(o) /\ UNCHANGED notServerVars
    \/ ErrorHandler /\ UNCHANGED notServerVars
    \/ NextRequest /\ UNCHANGED notServerVars

\* ----------------------------------------------- upload endpoint: claims

FallbackMode == uploadDocument = "undefined"
JsonUpload == req.file = NoFilePart
Answered == routePc = "finished"

\* C14: in fallback mode, a JSON upload with a title and a text is answered with
\* originalText the submitted text as it came, and summary its first 200
\* characters (UTF-16 code units), followed by the marker exactly when the text
\* has more than 200.
C14_FallbackSummary ==
    (FallbackMode /\ Answered /\ JsonUpload
        /\ TruthyText(req.body.text) /\ Truthy(req.body.title))
    => /\ Len(res) = 1
       /\ res[1].originalText = req.body.text
       /\ LET n == Len(req.body.text.chars)
              sm == res[1].summary.chars IN
          /\ \A i \in 1..Min(n, SnippetLen) : sm[i] = req.body.text.chars[i]
          /\ n <= SnippetLen => sm = req.body.text.chars
          /\ n > SnippetLen => (Len(sm) = SnippetLen + Len(Marker)
                                /\ SubSeq(sm, SnippetLen + 1, Len(sm)) = Marker)

\* a text of exactly 200 characters comes back whole, with no marker
C14_Witness ==
    /\ FallbackMode /\ Answered /\ JsonUpload
    /\ Len(req.body.text.chars) = SnippetLen
    /\ req.body.title = "T"
    /\ Len(res) = 1 /\ res[1].status = 200
    /\ res[1].summary.chars = req.body.text.chars

\* C15 (as claimed): in fallback mode a request with no file part whose body has
\* both fields, title and text, whatever they hold, is answered 200 with the
\* placeholder summary echoing title, userId and originalText; and the 400 "no
\* file or text" goes only to requests with neither a file part nor both fields.
C15_TitleAndTextAccepted ==
    (FallbackMode /\ Answered /\ JsonUpload)
    => /\ Len(res) = 1
       /\ (req.body.text.defined /\ req.body.title # Undefined)
            => /\ res[1].status = 200
               /\ res[1].summary.kind = "snippet"
               /\ res[1].title = req.body.title
               /\ res[1].userId = req.body.userId
               /\ res[1].originalText = req.body.text
       /\ res[1].error = NothingProvidedMsg
            => ~(req.body.text.defined /\ req.body.title # Undefined)

\* C16 (as claimed): a request during whose handling uploadDocument threw or its
\* promise rejected is answered, once, with a 500 carrying the error message.
C16_ExceptionsAnswered ==
    (Answered /\ raised.where = "uploadDocument")
    => /\ Len(res) = 1
       /\ res[1].status = 500
       /\ res[1].error \in {raised.message, "Upload error", "Internal Server Error"}


\* ======================================================== document model

DocIds == {"d1", "d2"}
\* the documents Document.add is given, and the titles updateTitle sets
NewDocs == [id : DocIds, title : {"A"}]
NewTitles == {"X"}

NoUserDoc == [exists |-> FALSE, documents |-> <<>>]

\* FieldValue.arrayUnion(doc): the element is appended unless an equal one is stored
ArrayUnion(arr, doc) ==
    IF \E i \in DOMAIN arr : arr[i] = doc THEN arr ELSE Append(arr, doc)

\* documents.map((d) => (d.id === docId ? { ...d, title: newTitle } : d))
MapTitle(arr, docId, newTitle) ==
    [i \in DOMAIN arr |->
        IF arr[i].id = docId THEN [arr[i] EXCEPT !.title = newTitle] ELSE arr[i]]

\* documents.filter((d) => d.id !== docId)
FilterKeepsMatching(arr, docId) == SelectSeq(arr, LAMBDA d : d.id = docId)
FilterOut(arr, docId) == SelectSeq(arr, LAMBDA d : d.id # docId)

\* updatedDocs, as updateTitle and delete build it from the snapshot they read
UpdatedDocs(c) ==
    IF c.op = "updateTitle" THEN MapTitle(c.snapshot, c.docId, c.title)
    ELSE FilterOut(c.snapshot, c.docId)

NewCall(op, docId, t) ==
    [op |-> op, docId |-> docId, title |-> t, pc |-> "read", snapshot |-> <<>>,
     userExisted |-> userDoc.exists, error |-> ""]

\* what the call does to the array when nothing runs between its read and its write
AtomicEffect(c, arr) ==
    CASE c.op = "add" ->
            IF [id |-> c.docId, title |-> c.title] \in {arr[i] : i \in DOMAIN arr}
            THEN arr ELSE arr \o <<[id |-> c.docId, title |-> c.title]>>
      [] c.op = "updateTitle" ->
            [i \in DOMAIN arr |-> [id |-> arr[i].id,
                                   title |-> IF arr[i].id = c.docId THEN c.title
                                             ELSE arr[i].title]]
      [] OTHER ->
            LET keep(d) == ~(d.id = c.docId) IN SelectSeq(arr, keep)

InitFirestore ==
    /\ userDoc = NoUserDoc
    /\ calls = <<>>
    /\ serial = <<>>
    /\ staleWrite = FALSE

\* User.create: set() writes the user document with an empty documents array
UserCreate ==
    /\ ~userDoc.exists
    /\ userDoc' = [exists |-> TRUE, documents |-> <<>>]
    /\ serial' = <<>>
    /\ UNCHANGED <<calls, staleWrite>>

\* Document.add: one update() with arrayUnion, applied by the server to the stored
\* array; update() rejects when the user document does not exist
DocumentAdd(doc) ==
    /\ Len(calls) < MaxCalls
    /\ LET c == NewCall("add", doc.id, doc.title) IN
       IF userDoc.exists
       THEN /\ userDoc' = [userDoc EXCEPT !.documents = ArrayUnion(@, doc)]
            /\ calls' = Append(calls, [c EXCEPT !.pc = "done"])
            /\ serial' = AtomicEffect(c, serial)
       ELSE /\ calls' = Append(calls, [c EXCEPT !.pc = "failed", !.error = "NOT_FOUND"])
            /\ UNCHANGED <<userDoc, serial>>
    /\ UNCHANGED staleWrite

\* Document.updateTitle and Document.delete up to their second await: get() the
\* user document, throw if it does not exist, build updatedDocs from what was read
DocumentRead(op, docId, t) ==
    /\ Len(calls) < MaxCalls
    /\ LET c == NewCall(op, docId, t) IN
       calls' = Append(calls,
                   IF userDoc.exists THEN [c EXCEPT !.snapshot = userDoc.documents]
                   ELSE [c EXCEPT !.pc = "failed", !.error = "User not found"])
    /\ UNCHANGED <<userDoc, serial, staleWrite>>

DocumentUpdateTitle(docId, newTitle) == DocumentRead("updateTitle", docId, newTitle)
DocumentDelete(docId) == DocumentRead("delete", docId, "")

\* their update({ documents: updatedDocs }): the stored array is replaced whole
DocumentWrite(i) ==
    /\ i \in DOMAIN calls
    /\ calls[i].pc = "read"
    /\ userDoc' = [userDoc EXCEPT !.documents = UpdatedDocs(calls[i])]
    /\ calls' = [calls EXCEPT ![i].pc = "done"]
    /\ serial' = AtomicEffect(calls[i], serial)
    /\ staleWrite' = (staleWrite \/ calls[i].snapshot # userDoc.documents)

NextFirestore ==
    \/ UserCreate /\ UNCHANGED notFirestoreVars
    \/ \E doc \in NewDocs : DocumentAdd(doc) /\ UNCHANGED notFirestoreVars
    \/ \E d \in DocIds, t \in NewTitles : DocumentUpdateTitle(d, t) /\ UNCHANGED notFirestoreVars
    \/ \E d \in DocIds : DocumentDelete(d) /\ UNCHANGED notFirestoreVars
    \/ \E i \in DOMAIN calls : DocumentWrite(i) /\ UNCHANGED notFirestoreVars

\* ------------------------------------------------ document model: claims

Stored == {userDoc.documents[i] : i \in DOMAIN userDoc.documents}
AllCompleted == \A i \in DOMAIN calls : calls[i].pc = "done"

\* C17: a call made on an existing user completes without error; and the stored
\* array differs from what the calls would have left had each taken effect at
\* once only if some updateTitle or delete wrote back an array built from a
\* snapshot that another writer had outdated in between.
C17_LossNeedsStaleWrite ==
    /\ \A i \in DOMAIN calls : calls[i].pc = "failed" => ~calls[i].userExisted
    /\ ~staleWrite => userDoc.documents = serial

\* a lost update: the calls have all completed without error, and the document one
\* of them added is not in the stored array although none of them deleted it
C17_Witness ==
    /\ Len(calls) >= 2
    /\ AllCompleted
    /\ staleWrite
    /\ userDoc.documents # serial
    /\ \E i \in DOMAIN calls :
          /\ calls[i].op = "add"
          /\ [id |-> calls[i].docId, title |-> calls[i].title] \notin Stored
          /\ \A j \in DOMAIN calls :
                calls[j].op \in {"delete", "updateTitle"} => calls[j].docId # calls[i].docId


Init == InitUpload /\ InitCache /\ InitServer /\ InitFirestore
Next == NextUpload \/ NextCache \/ NextRecent \/ NextServer \/ NextFirestore
SpecUpload == Init /\ [][NextUpload]_vars
SpecUploadRendered == Init /\ [][NextUploadRendered]_vars
\* the server side alone, beside one idle modal
InitCacheAlone == Init /\ variant = UploadModal /\ localStorage.userId = Null
SpecCache == InitCacheAlone /\ [][NextCache]_vars
SpecRecent == InitCacheAlone /\ [][NextRecent]_vars
SpecEndpoint == InitCacheAlone /\ [][NextServer]_vars
SpecDocuments == InitCacheAlone /\ [][NextFirestore]_vars
Spec == Init /\ [][Next]_vars

====
